---------------------------- MODULE Spec2Model ----------------------------
(***************************************************************************)
(* A model of the avalanche simulation of src/src/main.rs: a network of    *)
(* nodes, each owning a mempool of per-transaction consensus states, a     *)
(* single FIFO mailbox (the mpsc channel), the router thread of            *)
(* Network::run, and the driver loop of main injecting transactions.       *)
(***************************************************************************)
EXTENDS Integers, Sequences, FiniteSets, TLC

(***************************************************************************)
(* Program constants.                                                      *)
(***************************************************************************)
SAMPLES == 4
MAX_EPOCHS == 4
\* TRESHOLD and CONVICTION_TRESHOLD are the f32 0.75, kept as the fraction 3/4.
TRESHOLD_NUM == 3
TRESHOLD_DEN == 4
CONVICTION_TRESHOLD_NUM == 3
CONVICTION_TRESHOLD_DEN == 4
\* verify_transaction: data < 7 is valid.
VALID_BELOW == 7

(***************************************************************************)
(* Bounds of the model.                                                    *)
(***************************************************************************)
\* The largest network Network::new builds in RouteSpec.
MaxNodes == 6
\* How many transactions the driver loop of main injects in Spec.
MaxInject == 2
\* In Spec the driver injects only while the router thread has made fewer
\* steps (a receive or one delivery) than this.
InjectWindow == 2
\* How many messages the router takes from the mailbox in Spec.
MaxRecv == 60
\* How many messages the router takes in RouteSpec.
MaxRecvRoute == 3
\* In LateSpec the driver's second transaction comes when the router has
\* taken LateFrom messages or up to LateWindow - 1 more, and the router takes
\* up to MaxRecvLate messages.
LateFrom == 40
LateWindow == 2
MaxRecvLate == 100
\* How many times handle_message is called in CallSpec.
MaxCalls == 9
\* In LockSpec the driver injects up to MaxInjectLock transactions and the
\* router takes up to MaxRecvLock messages.
MaxInjectLock == 2
MaxRecvLock == 3
\* How many pairs of responses the two states of PairSpec are fed.
MaxFeed == 16

Nonces == {1}
\* Transaction::random draws data from 0..9; one valid and one invalid value.
Datas == {3, 9}

Valid == "Valid"
Invalid == "Invalid"
Status == {Valid, Invalid}
NoState == [absent |-> TRUE]
NoDecision == <<>>
NoMsg == [type |-> "None"]
\* The threads of the program: main (the driver loop) and the router thread.
Threads == {"main", "router"}
\* A thread that is not about to call a handler.
NoCall == [pc |-> "out"]

VARIABLES
    nodes,      \* Network.nodes: the ids 0..n-1
    iterOrder,  \* the iteration order of the nodes HashMap
    mempool,    \* mempool[id][hash]: Node.mempool
    mailbox,    \* the channel: a queue of [origin, msg]
    rpc,        \* where the router thread is: "recv", "query" or "response"
    cur,        \* the (origin, msg) the router took last
    sampled,    \* the peers sampled for the Query in cur
    delivered,  \* the nodes that have handled cur so far, in order
    panicked,   \* the router thread has panicked
    injected,   \* how many transactions the driver has injected
    recvd,      \* how many messages the router has taken
    rsteps,     \* how many steps (receives, deliveries) the router has made
    decisions,  \* the decisions printed by handle_message: <<node, hash, status>>
    ev,         \* the last handler call: its input, the state before and after, its output
    node_lock,  \* node_lock[id]: the thread holding the Mutex<Node> of id, or "free"
    receiver_lock, \* the thread holding the Mutex<Receiver>, or "free"
    call        \* call[t]: the handler call thread t is making, step by step (LockSpec)

vars == <<nodes, iterOrder, mempool, mailbox, rpc, cur, sampled, delivered,
          panicked, injected, recvd, rsteps, decisions, ev,
          node_lock, receiver_lock, call>>

\* The mutexes and the position of each thread's handler call: they change
\* only where locking is modelled step by step (LockSpec); elsewhere a
\* handler call, its lock and unlock are one step.
lockvars == <<node_lock, receiver_lock, call>>

(***************************************************************************)
(* Status, Transaction, TxState.                                           *)
(***************************************************************************)
flip(s) == IF s = Valid THEN Invalid ELSE Valid

\* Transaction::serialize writes the nonce only; the digest is taken to be
\* injective on the bytes it is given.
serialize(tx) == <<tx.nonce>>
digest(bytes) == bytes[1]
hash(tx) == digest(serialize(tx))

TxState_new(tx, status) ==
    [ responses   |-> <<>>,
      is_final    |-> FALSE,
      last_status |-> Invalid,
      epoch       |-> 0,
      cnt_valid   |-> 0,
      cnt_invalid |-> 0,
      cnt         |-> 0,
      tx          |-> tx,
      status      |-> status ]

incr_status(st, s) ==
    IF s = Valid THEN [st EXCEPT !.cnt_valid = @ + 1]
                 ELSE [st EXCEPT !.cnt_invalid = @ + 1]

status_count(st, s) == IF s = Valid THEN st.cnt_valid ELSE st.cnt_invalid

\* Mutant: the epoch counted twice.
advance_twice(st) == [st EXCEPT !.epoch = @ + 2, !.responses = <<>>]

advance(st) == [st EXCEPT !.epoch = @ + 1, !.responses = <<>>]

(***************************************************************************)
(* Node.  A handler returns the node's new mempool, the messages it sent   *)
(* (in order) and the decision handle_message prints.                      *)
(***************************************************************************)
verify_transaction(tx) == IF tx.data < VALID_BELOW THEN Valid ELSE Invalid

send_query(id, tx, status) ==
    [origin |-> id, msg |-> [type |-> "Query", tx |-> tx, status |-> status]]

send_response(id, to, h, status) ==
    [origin |-> id,
     msg |-> [type |-> "QueryResponse", to |-> to, hash |-> h, status |-> status]]

Result(pool, out, decision, panic) ==
    [pool |-> pool, out |-> out, decision |-> decision, panic |-> panic]

contains_key(pool, h) == pool[h] # NoState

\* Mutant: the transaction is announced but not kept.
handle_transaction_forgets(pool, id, tx) ==
    Result(pool, <<send_query(id, tx, verify_transaction(tx))>>, NoDecision, FALSE)

handle_transaction(pool, id, tx) ==
    LET status == verify_transaction(tx)
    IN Result([pool EXCEPT ![hash(tx)] = TxState_new(tx, status)],
              <<send_query(id, tx, status)>>, NoDecision, FALSE)

\* Mutant: every Query is taken for a new transaction.
is_unseen_always(pool, h) == TRUE

\* line 279
is_unseen(pool, h) == ~contains_key(pool, h)

\* Mutant: the adopting node does not send a Query of its own.
handle_query_silent(pool, id, origin, msg) ==
    LET h == hash(msg.tx)
        known == ~is_unseen(pool, h)
        state == IF ~known THEN TxState_new(msg.tx, msg.status) ELSE pool[h]
        pool1 == IF ~known THEN [pool EXCEPT ![h] = state] ELSE pool
    IN Result(pool1, <<send_response(id, origin, hash(state.tx), state.status)>>,
              NoDecision, FALSE)

\* Mutant: the adopting node takes the status opposite to the Query's.
handle_query_contrary(pool, id, origin, msg) ==
    LET h == hash(msg.tx)
        known == ~is_unseen(pool, h)
        state == IF ~known THEN TxState_new(msg.tx, flip(msg.status)) ELSE pool[h]
        pool1 == IF ~known THEN [pool EXCEPT ![h] = state] ELSE pool
        q == IF ~known THEN <<send_query(id, msg.tx, flip(msg.status))>> ELSE <<>>
    IN Result(pool1, q \o <<send_response(id, origin, hash(state.tx), state.status)>>,
              NoDecision, FALSE)

handle_query(pool, id, origin, msg) ==
    LET h == hash(msg.tx)
        known == ~is_unseen(pool, h)
        state == IF ~known THEN TxState_new(msg.tx, msg.status) ELSE pool[h]
        pool1 == IF ~known THEN [pool EXCEPT ![h] = state] ELSE pool
        q == IF ~known THEN <<send_query(id, msg.tx, msg.status)>> ELSE <<>>
    IN Result(pool1, q \o <<send_response(id, origin, hash(state.tx), state.status)>>,
              NoDecision, FALSE)

\* (TRESHOLD * SAMPLES as f32) as usize
quorum_size == (TRESHOLD_NUM * SAMPLES) \div TRESHOLD_DEN
\* (CONVICTION_TRESHOLD * SAMPLES as f32) as u32
conviction_bound == (CONVICTION_TRESHOLD_NUM * SAMPLES) \div CONVICTION_TRESHOLD_DEN

RECURSIVE count_eq(_, _)
count_eq(responses, s) ==
    IF responses = <<>> THEN 0
    ELSE (IF Head(responses) = s THEN 1 ELSE 0) + count_eq(Tail(responses), s)

\* Mutant: the finality check is missing.
ignores_response_never(st) == FALSE

\* line 299: a final state handles no response.
ignores_response(st) == st.is_final

\* Mutant: a quorum one response short.
is_quorum_short(st, s) == count_eq(st.responses, s) >= quorum_size - 1

\* line 310: the tally of the received status reaches the quorum.
is_quorum(st, s) == count_eq(st.responses, s) >= quorum_size

\* Mutant: the confirmation is counted but the status never follows it.
confirm_keeps(st, s) == incr_status(st, s)

\* lines 312-321: count the confirmation and flip to the received status.
confirm(st, s) ==
    LET st1 == incr_status(st, s)
        cnt == status_count(st1, s)
        our_status_cnt == status_count(st1, st1.status)
    IN IF cnt > our_status_cnt
       THEN [st1 EXCEPT !.status = s, !.last_status = s]
       ELSE st1

\* Mutant: the streak never convinces.
convinced_never(st) == FALSE

\* line 330
convinced(st) == st.cnt > conviction_bound

\* Mutant: final one epoch early.
reached_final_early(st) == st.epoch + 1 = MAX_EPOCHS

\* line 332
reached_final(st) == st.epoch = MAX_EPOCHS

\* lines 323-337: the streak; TRUE in "decided" is the early return of line 334.
streak(st, s) ==
    IF s # st.last_status
    THEN [state |-> [st EXCEPT !.last_status = s, !.cnt = 0], decided |-> FALSE]
    ELSE LET st1 == [st EXCEPT !.cnt = @ + 1]
         IN IF convinced(st1)
            THEN LET st2 == advance(st1)
                 IN IF reached_final(st2)
                    THEN [state |-> [st2 EXCEPT !.is_final = TRUE], decided |-> TRUE]
                    ELSE [state |-> st2, decided |-> FALSE]
            ELSE [state |-> st1, decided |-> FALSE]

\* Mutant: the re-query carries the local verification result, not the belief.
requery_verified(id, st) == <<send_query(id, st.tx, verify_transaction(st.tx))>>

\* Mutant: no re-query.
requery_none(id, st) == <<>>

\* lines 341-343
requery(id, st) == <<send_query(id, st.tx, st.status)>>

\* Mutant: a response for an unknown hash is dropped without a panic.
handle_query_response_lenient(pool, id, msg) ==
    Result(pool, <<>>, NoDecision, FALSE)

\* line 297: get_mut(..).unwrap() panics when the hash is not in the mempool.
handle_query_response(pool, id, msg) ==
    IF ~contains_key(pool, msg.hash)
    THEN Result(pool, <<>>, NoDecision, TRUE)       \* unwrap() of None
    ELSE
    LET st == pool[msg.hash]
    IN IF ignores_response(st)
       THEN Result(pool, <<>>, NoDecision, FALSE)
       ELSE
       LET st1 == [st EXCEPT !.responses = Append(@, msg.status)]
           r == IF is_quorum(st1, msg.status)
                THEN streak(confirm(st1, msg.status), msg.status)
                ELSE [state |-> st1, decided |-> FALSE]
           pool1 == [pool EXCEPT ![msg.hash] = r.state]
       IN IF r.decided
          THEN Result(pool1, <<>>, <<hash(r.state.tx), r.state.status>>, FALSE)
          ELSE Result(pool1, requery(id, r.state), NoDecision, FALSE)

handle_message(pool, id, origin, msg) ==
    CASE msg.type = "Query" -> handle_query(pool, id, origin, msg)
      [] msg.type = "QueryResponse" -> handle_query_response(pool, id, msg)
      [] msg.type = "Transaction" -> handle_transaction(pool, id, msg.tx)

(***************************************************************************)
(* Sampler: rand::sample is reservoir sampling over the ids in the         *)
(* HashMap's iteration order, the excluded id filtered out.                *)
(***************************************************************************)
RECURSIVE filter_excl(_, _)
filter_excl(order, excl) ==
    IF order = <<>> THEN <<>>
    ELSE IF Head(order) = excl THEN filter_excl(Tail(order), excl)
         ELSE <<Head(order)>> \o filter_excl(Tail(order), excl)

Min(a, b) == IF a < b THEN a ELSE b

\* The reservoirs after the elements ids[i..] have been offered: element
\* number i (counted from 0 after the first n) draws k in 0..i+n-1 and
\* replaces spot k when k < n.
RECURSIVE reservoirs(_, _, _, _)
reservoirs(res, ids, i, n) ==
    IF i > Len(ids) THEN res
    ELSE reservoirs(
            res \cup { [r EXCEPT ![k] = ids[i]] : r \in res, k \in 1..n },
            ids, i + 1, n)

sample(ids, n) ==
    LET first == SubSeq(ids, 1, Min(n, Len(ids)))
    IN IF Len(first) = n THEN reservoirs({first}, ids, n + 1, n) ELSE {first}

\* Mutant: the origin is not filtered out.
sample_nodes_unfiltered(order, n, excl) == sample(order, n)

sample_nodes(order, n, excl) == sample(filter_excl(order, excl), n)

(***************************************************************************)
(* The network.                                                            *)
(***************************************************************************)
Ascending(n) == [i \in 1..n |-> i - 1]
Descending(n) == [i \in 1..n |-> n - i]

NoEvent == [kind |-> "None"]

Event(id, origin, msg, r) ==
    [kind |-> msg.type, node |-> id, origin |-> origin, msg |-> msg,
     pre |-> mempool[id], post |-> r.pool, out |-> r.out,
     decision |-> r.decision, panic |-> r.panic]

\* Network::new(n), before main's loop and the router thread run.
InitN(ns, orders) ==
    /\ \E n \in ns :
        /\ nodes = 0..(n - 1)
        /\ iterOrder \in {IF o = "asc" THEN Ascending(n) ELSE Descending(n) : o \in orders}
        /\ mempool = [id \in 0..(n - 1) |-> [h \in Nonces |-> NoState]]
        /\ node_lock = [id \in 0..(n - 1) |-> "free"]
    /\ receiver_lock = "free"
    /\ call = [t \in Threads |-> NoCall]
    /\ mailbox = <<>>
    /\ rpc = "recv"
    /\ cur = [origin |-> 0, msg |-> NoMsg]
    /\ sampled = <<>>
    /\ delivered = <<>>
    /\ panicked = FALSE
    /\ injected = 0
    /\ recvd = 0
    /\ rsteps = 0
    /\ decisions = {}
    /\ ev = NoEvent

\* One handle_message call on node id, under the node's lock.
Deliver(id, origin, msg) ==
    LET r == handle_message(mempool[id], id, origin, msg)
    IN /\ mempool' = [mempool EXCEPT ![id] = r.pool]
       /\ mailbox' = mailbox \o r.out
       /\ decisions' = IF r.decision = NoDecision THEN decisions
                       ELSE decisions \cup {<<id, r.decision[1], r.decision[2]>>}
       /\ panicked' = (panicked \/ r.panic)
       /\ ev' = Event(id, origin, msg, r)

\* main, lines 21-34: a transaction handed to a random node, origin 0.
InjectTx(datas) ==
    /\ \E id \in nodes, nonce \in Nonces, data \in datas :
          Deliver(id, 0, [type |-> "Transaction",
                          tx |-> [nonce |-> nonce, data |-> data]])
    /\ injected' = injected + 1
    /\ UNCHANGED <<nodes, iterOrder, rpc, cur, sampled, delivered, recvd, rsteps>>
    /\ UNCHANGED lockvars

\* Network::run, line 148: the router takes the next message; for a Query it
\* samples the peers (line 151).
Take ==
    /\ ~panicked
    /\ rpc = "recv"
    /\ mailbox # <<>>
    /\ LET m == Head(mailbox)
       IN /\ cur' = m
          /\ mailbox' = Tail(mailbox)
          /\ IF m.msg.type = "Query"
             THEN \E s \in sample_nodes(iterOrder, SAMPLES, m.origin) :
                    /\ sampled' = s
                    /\ rpc' = IF s = <<>> THEN "recv" ELSE "query"
             ELSE /\ sampled' = <<>>
                  /\ rpc' = IF m.msg.type = "QueryResponse" THEN "response"
                            ELSE "unreachable"
    /\ delivered' = <<>>
    /\ recvd' = recvd + 1
    /\ rsteps' = rsteps + 1
    /\ UNCHANGED <<nodes, iterOrder, mempool, panicked, injected, decisions, ev>>

\* line 148 as one step: the receiver's lock taken, the message received,
\* the lock released.
RouterTake == Take /\ UNCHANGED lockvars

\* lines 152-162: the Query handled by the next sampled peer.
RouterDeliverQuery ==
    /\ ~panicked
    /\ rpc = "query"
    /\ LET id == sampled[Len(delivered) + 1]
       IN /\ Deliver(id, cur.origin, cur.msg)
          /\ delivered' = Append(delivered, id)
    /\ rpc' = IF Len(delivered) + 1 = Len(sampled) THEN "recv" ELSE "query"
    /\ rsteps' = rsteps + 1
    /\ UNCHANGED <<nodes, iterOrder, cur, sampled, injected, recvd>>
    /\ UNCHANGED lockvars

\* lines 164-167: the QueryResponse handled by the node it is addressed to
\* (a response is always addressed to the origin of a Query, a node).
RouterDeliverResponse ==
    /\ ~panicked
    /\ rpc = "response"
    /\ cur.msg.to \in nodes
    /\ Deliver(cur.msg.to, cur.origin, cur.msg)
    /\ delivered' = <<cur.msg.to>>
    /\ rpc' = "recv"
    /\ rsteps' = rsteps + 1
    /\ UNCHANGED <<nodes, iterOrder, cur, sampled, injected, recvd>>
    /\ UNCHANGED lockvars

(***************************************************************************)
(* Spec: the smallest network sample_nodes can serve (SAMPLES + 1 nodes),  *)
(* the driver injecting up to MaxInject transactions before the router has *)
(* made InjectWindow steps, the router taking up to MaxRecv messages.      *)
(***************************************************************************)
Init == InitN({SAMPLES + 1}, {"asc"})

Inject ==
    /\ injected < MaxInject
    /\ rsteps < InjectWindow
    /\ InjectTx(Datas)

RouterRecv ==
    /\ recvd < MaxRecv
    /\ RouterTake

Next == Inject \/ RouterRecv \/ RouterDeliverQuery \/ RouterDeliverResponse

Spec == Init /\ [][Next]_vars

(***************************************************************************)
(* LateSpec: the driver loop as its sleep (line 33) paces it: the first    *)
(* transaction starts the network, the second one, for the same nonce,     *)
(* comes while the first is being decided.                                 *)
(***************************************************************************)
InjectFirst ==
    /\ injected = 0
    /\ InjectTx(Datas)

InjectLate ==
    /\ injected = 1
    /\ recvd >= LateFrom
    /\ recvd < LateFrom + LateWindow
    /\ InjectTx(Datas)

RouterRecvLate ==
    /\ recvd < MaxRecvLate
    /\ RouterTake

NextLate ==
    \/ InjectFirst \/ InjectLate \/ RouterRecvLate
    \/ RouterDeliverQuery \/ RouterDeliverResponse

LateSpec == Init /\ [][NextLate]_vars

(***************************************************************************)
(* LiveSpec: one locally valid transaction injected into one node, the     *)
(* router thread looping for ever (Network::run, line 147): it is never    *)
(* stopped while it has a message to take or to deliver.                   *)
(***************************************************************************)
ValidDatas == {d \in Datas : d < VALID_BELOW}

InjectValid ==
    /\ injected = 0
    /\ InjectTx(ValidDatas)

NextLive ==
    InjectValid \/ RouterTake \/ RouterDeliverQuery \/ RouterDeliverResponse

InitLive == InitN({SAMPLES + 1}, {"asc", "desc"})

LiveSpec ==
    /\ InitLive
    /\ [][NextLive]_vars
    /\ WF_vars(RouterTake)
    /\ WF_vars(RouterDeliverQuery)
    /\ WF_vars(RouterDeliverResponse)

(***************************************************************************)
(* RouteSpec: networks of SAMPLES + 1 to MaxNodes nodes, one transaction   *)
(* injected, the router taking up to MaxRecvRoute messages.                *)
(***************************************************************************)
InjectOne ==
    /\ injected = 0
    /\ InjectTx(Datas)

RouterRecvRoute ==
    /\ recvd < MaxRecvRoute
    /\ RouterTake

NextRoute ==
    InjectOne \/ RouterRecvRoute \/ RouterDeliverQuery \/ RouterDeliverResponse

InitRoute == InitN((SAMPLES + 1)..MaxNodes, {"asc", "desc"})

RouteSpec == InitRoute /\ [][NextRoute]_vars

(***************************************************************************)
(* OnceSpec: one transaction, valid or not, injected into one node of a    *)
(* network of SAMPLES + 1 nodes and never another one; the router thread   *)
(* loops for ever and is never stopped while it has a message to take or   *)
(* to deliver.                                                             *)
(***************************************************************************)
NextOnce ==
    InjectOne \/ RouterTake \/ RouterDeliverQuery \/ RouterDeliverResponse

OnceSpec ==
    /\ InitLive
    /\ [][NextOnce]_vars
    /\ WF_vars(RouterTake)
    /\ WF_vars(RouterDeliverQuery)
    /\ WF_vars(RouterDeliverResponse)

(***************************************************************************)
(* CallSpec: handle_message called on one node of a network of two with    *)
(* any message, as main calls it (lines 29-31), while the router thread    *)
(* is not running: up to MaxCalls calls, the caller taking what the call   *)
(* sent out of the channel before the next call.  A call that panics ends  *)
(* the calling thread.                                                     *)
(***************************************************************************)
InitCall == InitN({2}, {"asc"})

\* The node the calls are made on: any node for the first call, then the same.
Callees == IF ev = NoEvent THEN nodes ELSE {ev.node}

Transactions == {[nonce |-> n, data |-> d] : n \in Nonces, d \in Datas}

CanCall ==
    /\ ~panicked
    /\ injected < MaxCalls
    /\ mailbox = <<>>

CallFrame ==
    /\ injected' = injected + 1
    /\ UNCHANGED <<nodes, iterOrder, rpc, cur, sampled, delivered, recvd, rsteps>>
    /\ UNCHANGED lockvars

CallTransaction ==
    /\ CanCall
    /\ \E id \in Callees, tx \in Transactions :
          Deliver(id, 0, [type |-> "Transaction", tx |-> tx])
    /\ CallFrame

CallQuery ==
    /\ CanCall
    /\ \E id \in Callees, tx \in Transactions, status \in Status :
          \E origin \in nodes \ {id} :
              Deliver(id, origin, [type |-> "Query", tx |-> tx, status |-> status])
    /\ CallFrame

CallResponse ==
    /\ CanCall
    /\ \E id \in Callees, h \in Nonces, status \in Status :
          \E origin \in nodes \ {id} :
              Deliver(id, origin, [type |-> "QueryResponse", to |-> id,
                                   hash |-> h, status |-> status])
    /\ CallFrame

\* The caller receives everything the call sent.
Drain ==
    /\ mailbox # <<>>
    /\ mailbox' = <<>>
    /\ UNCHANGED <<nodes, iterOrder, mempool, rpc, cur, sampled, delivered,
                   panicked, injected, recvd, rsteps, decisions, ev>>
    /\ UNCHANGED lockvars

NextCall == CallTransaction \/ CallQuery \/ CallResponse \/ Drain

CallSpec == InitCall /\ [][NextCall]_vars

(***************************************************************************)
(* PairSpec: two nodes called side by side.  Node 0 is given a state with  *)
(* a status S and node 1 a state with the other status (by a Transaction   *)
(* each, or by a Query each); then, up to MaxFeed times, node 0 handles a  *)
(* QueryResponse with some status and node 1 one with the other status.    *)
(* recvd counts the pairs of responses; what the calls send is taken out   *)
(* of the channel by the caller.                                           *)
(***************************************************************************)
InitPair == InitN({2}, {"asc"})

Response(to, h, status) ==
    [type |-> "QueryResponse", to |-> to, hash |-> h, status |-> status]

\* Two handle_message calls, msg0 on node 0 and msg1 on node 1.
CallPair(msg0, msg1) ==
    LET r0 == handle_message(mempool[0], 0, 1, msg0)
        r1 == handle_message(mempool[1], 1, 0, msg1)
        d0 == IF r0.decision = NoDecision THEN {}
              ELSE {<<0, r0.decision[1], r0.decision[2]>>}
        d1 == IF r1.decision = NoDecision THEN {}
              ELSE {<<1, r1.decision[1], r1.decision[2]>>}
    IN /\ mempool' = [mempool EXCEPT ![0] = r0.pool, ![1] = r1.pool]
       /\ mailbox' = <<>>
       /\ decisions' = decisions \cup d0 \cup d1
       /\ panicked' = (panicked \/ r0.panic \/ r1.panic)
       /\ ev' = Event(0, 1, msg0, r0)
       /\ UNCHANGED <<nodes, iterOrder, rpc, cur, sampled, delivered, rsteps>>
       /\ UNCHANGED lockvars

PairInject ==
    /\ injected = 0
    /\ \E tx0, tx1 \in Transactions :
          /\ verify_transaction(tx1) = flip(verify_transaction(tx0))
          /\ CallPair([type |-> "Transaction", tx |-> tx0],
                      [type |-> "Transaction", tx |-> tx1])
    /\ injected' = 1
    /\ UNCHANGED recvd

PairAdopt ==
    /\ injected = 0
    /\ \E tx \in Transactions :
          LET status == verify_transaction(tx)
          IN CallPair([type |-> "Query", tx |-> tx, status |-> status],
                      [type |-> "Query", tx |-> tx, status |-> flip(status)])
    /\ injected' = 1
    /\ UNCHANGED recvd

PairFeed ==
    /\ injected = 1
    /\ recvd < MaxFeed
    /\ \E h \in Nonces, status \in Status :
          CallPair(Response(0, h, status), Response(1, h, flip(status)))
    /\ recvd' = recvd + 1
    /\ UNCHANGED injected

NextPair == PairInject \/ PairAdopt \/ PairFeed

PairSpec == InitPair /\ [][NextPair]_vars

(***************************************************************************)
(* LockSpec: the two threads step by step.  A thread about to call a       *)
(* handler picks the node ("lock"), takes the node's mutex ("enter"),      *)
(* enters the handler, which reads the mempool ("inside"), leaves it with  *)
(* its writes and sends done ("unlock"), and drops the guard ("out").  The *)
(* router takes the receiver's mutex, receives, and drops that guard at    *)
(* the end of the statement of line 148.                                   *)
(***************************************************************************)
\* Mutant: lock() returns without waiting for the holder.
lock_free_always(id) == TRUE

\* Mutex::lock returns only when no thread holds the mutex.
lock_free(id) == node_lock[id] = "free"

Holding(t) == call[t].pc \in {"enter", "inside", "unlock"}

\* node.lock() of lines 29, 158 and 166.
LockNode(t) ==
    /\ call[t].pc = "lock"
    /\ lock_free(call[t].node)
    /\ node_lock' = [node_lock EXCEPT ![call[t].node] = t]
    /\ call' = [call EXCEPT ![t].pc = "enter"]
    /\ UNCHANGED <<nodes, iterOrder, mempool, mailbox, rpc, cur, sampled,
                   delivered, panicked, injected, recvd, rsteps, decisions,
                   ev, receiver_lock>>

\* handle_message is entered: the handler looks at the node's mempool.
EnterHandler(t) ==
    /\ call[t].pc = "enter"
    /\ call' = [call EXCEPT ![t].pc = "inside",
                            ![t].seen = mempool[call[t].node]]
    /\ UNCHANGED <<nodes, iterOrder, mempool, mailbox, rpc, cur, sampled,
                   delivered, panicked, injected, recvd, rsteps, decisions,
                   ev, node_lock, receiver_lock>>

\* handle_message returns: its writes to the mempool and its sends are done.
ExitHandler(t) ==
    /\ call[t].pc = "inside"
    /\ ~panicked
    /\ Deliver(call[t].node, call[t].origin, call[t].msg)
    /\ call' = [call EXCEPT ![t].pc = "unlock"]
    /\ UNCHANGED <<nodes, iterOrder, rpc, cur, sampled, delivered, injected,
                   recvd, rsteps, node_lock, receiver_lock>>

\* The MutexGuard is dropped.
UnlockNode(t) ==
    /\ call[t].pc = "unlock"
    /\ node_lock' = [node_lock EXCEPT ![call[t].node] = "free"]
    /\ call' = [call EXCEPT ![t] = NoCall]
    /\ UNCHANGED <<nodes, iterOrder, mempool, mailbox, cur, sampled, panicked,
                   recvd, rsteps, decisions, ev, receiver_lock>>

\* The transactions main draws in LockSpec: the locally valid ones (which
\* thread holds which mutex does not depend on the data).
LockTransactions == {tx \in Transactions : tx.data \in ValidDatas}

\* main, lines 22-28: the transaction and the node are chosen.
MainPick ==
    /\ call["main"].pc = "out"
    /\ injected < MaxInjectLock
    /\ \E id \in nodes, tx \in LockTransactions :
          call' = [call EXCEPT !["main"] =
                      [pc |-> "lock", node |-> id, origin |-> 0,
                       msg |-> [type |-> "Transaction", tx |-> tx],
                       seen |-> <<>>]]
    /\ UNCHANGED <<nodes, iterOrder, mempool, mailbox, rpc, cur, sampled,
                   delivered, panicked, injected, recvd, rsteps, decisions,
                   ev, node_lock, receiver_lock>>

MainLock == LockNode("main")
MainEnter == EnterHandler("main")
MainExit == ExitHandler("main")

\* line 31, the end of the statement; the loop goes on after the sleep.
MainUnlock ==
    /\ UnlockNode("main")
    /\ injected' = injected + 1
    /\ UNCHANGED <<rpc, delivered>>

\* line 148: receiver.lock().
RouterLockReceiver ==
    /\ ~panicked
    /\ rpc = "recv"
    /\ call["router"].pc = "out"
    /\ recvd < MaxRecvLock
    /\ receiver_lock = "free"
    /\ receiver_lock' = "router"
    /\ UNCHANGED <<nodes, iterOrder, mempool, mailbox, rpc, cur, sampled,
                   delivered, panicked, injected, recvd, rsteps, decisions,
                   ev, node_lock, call>>

\* line 148: recv() returns a message and the receiver's guard is dropped.
RouterRecvLocked ==
    /\ receiver_lock = "router"
    /\ Take
    /\ receiver_lock' = "free"
    /\ UNCHANGED <<node_lock, call>>

\* lines 155-157 and 165: the node the message goes to next.
RouterPick ==
    /\ ~panicked
    /\ rpc \in {"query", "response"}
    /\ call["router"].pc = "out"
    /\ call' = [call EXCEPT !["router"] =
                    [pc |-> "lock",
                     node |-> IF rpc = "query" THEN sampled[Len(delivered) + 1]
                              ELSE cur.msg.to,
                     origin |-> cur.origin, msg |-> cur.msg, seen |-> <<>>]]
    /\ UNCHANGED <<nodes, iterOrder, mempool, mailbox, rpc, cur, sampled,
                   delivered, panicked, injected, recvd, rsteps, decisions,
                   ev, node_lock, receiver_lock>>

RouterLock == LockNode("router")
RouterEnter == EnterHandler("router")
RouterExit == ExitHandler("router")

\* lines 160 and 166, the end of the statement: the next peer or the next
\* message.
RouterUnlock ==
    /\ UnlockNode("router")
    /\ delivered' = Append(delivered, call["router"].node)
    /\ rpc' = IF rpc = "query" /\ Len(delivered) + 1 < Len(sampled)
              THEN "query" ELSE "recv"
    /\ UNCHANGED injected

NextLock ==
    \/ MainPick \/ MainLock \/ MainEnter \/ MainExit \/ MainUnlock
    \/ RouterLockReceiver \/ RouterRecvLocked \/ RouterPick
    \/ RouterLock \/ RouterEnter \/ RouterExit \/ RouterUnlock

LockSpec == Init /\ [][NextLock]_vars

(***************************************************************************)
(* What the last handler call did, read from ev.                           *)
(***************************************************************************)
EvHash == IF ev.kind = "QueryResponse" THEN ev.msg.hash ELSE hash(ev.msg.tx)
EvPre == ev.pre[EvHash]
EvPost == ev.post[EvHash]
\* A QueryResponse handled by a node that holds a state for it.
ResponseStep == ev.kind = "QueryResponse" /\ EvPre # NoState
\* A Query handled by a node.
QueryStep == ev.kind = "Query"
QueriesOf(out) == SelectSeq(out, LAMBDA m : m.msg.type = "Query")
ResponsesOf(out) == SelectSeq(out, LAMBDA m : m.msg.type = "QueryResponse")
\* The response of the step is a quorum confirmation: the tally with it appended.
EvQuorum ==
    count_eq(Append(EvPre.responses, ev.msg.status), ev.msg.status) >= quorum_size
States == {mempool[i][h] : i \in nodes, h \in Nonces} \ {NoState}

(***************************************************************************)
(* C1 Freeze on finality: a QueryResponse handled by a node whose state    *)
(* for the transaction is final leaves the node's mempool (status, epoch,  *)
(* tally, both confidence counters, streak belief and count) as it was,    *)
(* sends nothing and reports no decision.                                  *)
(***************************************************************************)
C1_FreezeOnFinality ==
    (ResponseStep /\ EvPre.is_final) =>
        /\ ev.post = ev.pre
        /\ mempool[ev.node] = ev.pre
        /\ ev.out = <<>>
        /\ ev.decision = NoDecision

\* A final node has handled a response of the opposite status.
C1_Witness ==
    /\ ResponseStep /\ EvPre.is_final /\ EvPost.is_final
    /\ ev.msg.status # EvPre.status

(***************************************************************************)
(* C3 Monotonic epoch: in every step of the router (the handling of a      *)
(* Query or a QueryResponse) a consensus state that exists stays, its      *)
(* epoch stays or grows by exactly 1, and is_final, once true, stays true. *)
(***************************************************************************)
C3_MonotonicEpoch ==
    [][ injected' = injected =>
          \A i \in nodes, h \in Nonces :
              mempool[i][h] # NoState =>
                  /\ mempool'[i][h] # NoState
                  /\ mempool'[i][h].epoch \in
                        {mempool[i][h].epoch, mempool[i][h].epoch + 1}
                  /\ mempool[i][h].is_final => mempool'[i][h].is_final ]_vars

C3_Witness ==
    /\ ResponseStep
    /\ EvPost.epoch = EvPre.epoch + 1
    /\ ~EvPre.is_final /\ EvPost.is_final

(***************************************************************************)
(* C4 Finality condition: every consensus state has epoch <= MAX_EPOCHS    *)
(* and is final exactly when epoch = MAX_EPOCHS; a handler call reports a  *)
(* decision exactly when it is the QueryResponse step that brings the      *)
(* epoch to MAX_EPOCHS, the decision is (T, the status after the step),    *)
(* and that step sends no message.                                         *)
(***************************************************************************)
C4_FinalityCondition ==
    /\ \A st \in States :
          /\ st.epoch <= MAX_EPOCHS
          /\ st.is_final <=> (st.epoch = MAX_EPOCHS)
    /\ ev.kind # "None" =>
          /\ (ev.decision # NoDecision) <=>
                (ResponseStep /\ EvPre.epoch < MAX_EPOCHS /\ EvPost.epoch = MAX_EPOCHS)
          /\ ev.decision # NoDecision =>
                /\ ev.decision = <<EvHash, EvPost.status>>
                /\ <<ev.node, EvHash, EvPost.status>> \in decisions
                /\ ev.out = <<>>

C4_Witness == ev.kind # "None" /\ ev.decision # NoDecision /\ EvPost.is_final

C6_StreakReset ==
    (ResponseStep /\ ~EvPre.is_final /\ EvQuorum) =>
        /\ ev.msg.status # EvPre.last_status =>
              (EvPost.last_status = ev.msg.status /\ EvPost.cnt = 0)
        /\ EvPost.cnt = EvPre.cnt + 1 => ev.msg.status = EvPre.last_status

(***************************************************************************)
(* C7 Re-query: a QueryResponse step on a state that is not final before   *)
(* and not final after it sends exactly one message, a Query for the       *)
(* transaction from this node with the node's status after the step.       *)
(***************************************************************************)
C7_Requery ==
    (ResponseStep /\ ~EvPre.is_final /\ ~EvPost.is_final) =>
        /\ Len(ev.out) = 1
        /\ ev.out[1].origin = ev.node
        /\ ev.out[1].msg.type = "Query"
        /\ hash(ev.out[1].msg.tx) = EvHash
        /\ ev.out[1].msg.status = EvPost.status
        /\ ev.out[1].msg.status = mempool[ev.node][EvHash].status

C7_Witness ==
    /\ ResponseStep /\ ~EvPost.is_final
    /\ EvPost.status # EvPre.status
    /\ Len(ev.out) = 1 /\ ev.out[1].msg.status = EvPost.status

(***************************************************************************)
(* C8 A Query never overwrites a known transaction: a Query step on a node *)
(* that holds a state for the transaction leaves the node's mempool as it  *)
(* was and sends exactly one message, a QueryResponse to the Query's       *)
(* origin with the node's own status.                                      *)
(***************************************************************************)
C8_QueryKeepsKnown ==
    (QueryStep /\ EvPre # NoState) =>
        /\ ev.post = ev.pre
        /\ mempool[ev.node] = ev.pre
        /\ ev.out = <<[origin |-> ev.node,
                       msg |-> [type |-> "QueryResponse", to |-> ev.origin,
                                hash |-> EvHash, status |-> EvPre.status]]>>

C8_Witness ==
    /\ QueryStep /\ EvPre # NoState
    /\ ev.msg.status # EvPre.status
    /\ Len(ResponsesOf(ev.out)) = 1

(***************************************************************************)
(* C9 Adoption and propagation: a Query step on a node that holds no state *)
(* for the transaction creates one with the Query's status, epoch 0, zero  *)
(* counters, an empty tally and is_final false, and sends a Query of its   *)
(* own with the adopted status, then a QueryResponse to the origin with    *)
(* the adopted status, and nothing else.                                   *)
(***************************************************************************)
C9_Adoption ==
    (QueryStep /\ EvPre = NoState) =>
        /\ EvPost # NoState
        /\ mempool[ev.node][EvHash] = EvPost
        /\ EvPost.status = ev.msg.status
        /\ EvPost.epoch = 0
        /\ EvPost.cnt_valid = 0 /\ EvPost.cnt_invalid = 0 /\ EvPost.cnt = 0
        /\ EvPost.responses = <<>>
        /\ ~EvPost.is_final
        /\ Len(ev.out) = 2
        /\ QueriesOf(ev.out) =
              <<[origin |-> ev.node,
                 msg |-> [type |-> "Query", tx |-> ev.msg.tx,
                          status |-> ev.msg.status]]>>
        /\ ResponsesOf(ev.out) =
              <<[origin |-> ev.node,
                 msg |-> [type |-> "QueryResponse", to |-> ev.origin,
                          hash |-> EvHash, status |-> ev.msg.status]]>>

C9_Witness ==
    /\ QueryStep /\ EvPre = NoState /\ EvPost # NoState
    /\ Len(QueriesOf(ev.out)) = 1 /\ Len(ResponsesOf(ev.out)) = 1

(***************************************************************************)
(* C2 Unanimous-valid liveness: with one locally valid transaction         *)
(* injected into a network of SAMPLES + 1 nodes and the router running     *)
(* fairly over the FIFO mailbox, no node ever holds the status Invalid,    *)
(* and every node that holds a state for the transaction eventually has it *)
(* final and has reported the decision (T, Valid).                         *)
(***************************************************************************)
LiveNodes == 0..SAMPLES

\* C2 Unanimous-valid liveness: never Invalid, and every node that holds a
\* state for the transaction eventually is final and has reported (T, Valid).
C2_UnanimousValid ==
    /\ [](\A i \in LiveNodes, h \in Nonces :
            mempool[i][h] # NoState => mempool[i][h].status = Valid)
    /\ \A i \in LiveNodes, h \in Nonces :
          (mempool[i][h] # NoState) ~>
              /\ mempool[i][h] # NoState
              /\ mempool[i][h].is_final
              /\ mempool[i][h].status = Valid
              /\ <<i, h, Valid>> \in decisions

\* Every node has learnt of the transaction and decided it Valid.
C2_Witness ==
    /\ injected = 1
    /\ \A i \in nodes, h \in Nonces :
          /\ mempool[i][h] # NoState
          /\ mempool[i][h].is_final
          /\ <<i, h, Valid>> \in decisions

(***************************************************************************)
(* C10 Routing: a Query taken from the mailbox with origin o is handled by *)
(* exactly SAMPLES pairwise distinct nodes, none of them o; a              *)
(* QueryResponse addressed to node "to" is handled by "to" alone; and a    *)
(* step changes a node's mempool only if it is that node's handling of an  *)
(* injected transaction or of the message the router holds.                *)
(***************************************************************************)
Last(seq) == seq[Len(seq)]

C10_Delivery ==
    /\ cur.msg.type = "Query" =>
          /\ Len(sampled) = SAMPLES
          /\ \A a, b \in 1..Len(sampled) : a # b => sampled[a] # sampled[b]
          /\ \A a \in 1..Len(sampled) : sampled[a] \in nodes \ {cur.origin}
          /\ delivered = SubSeq(sampled, 1, Len(delivered))
          /\ rpc = "recv" => delivered = sampled
          /\ rpc = "query" => Len(delivered) < Len(sampled)
    /\ cur.msg.type = "QueryResponse" =>
          /\ rpc = "response" => delivered = <<>>
          /\ rpc = "recv" => delivered = <<cur.msg.to>>
    /\ rpc \in {"recv", "query", "response"}
    /\ (delivered # <<>> /\ ev.kind \in {"Query", "QueryResponse"}) =>
          /\ ev.node = Last(delivered)
          /\ ev.msg = cur.msg
          /\ ev.origin = cur.origin

C10_Frame ==
    \A i \in nodes :
        mempool'[i] # mempool[i] =>
            \/ injected' = injected + 1 /\ ev'.kind = "Transaction" /\ ev'.node = i
            \/ /\ rpc = "query" /\ cur.msg.type = "Query"
               /\ i = sampled[Len(delivered) + 1]
               /\ delivered' = Append(delivered, i)
            \/ /\ rpc = "response" /\ cur.msg.type = "QueryResponse"
               /\ i = cur.msg.to
               /\ delivered' = <<i>>

\* C10 Routing: the deliveries of every message the router takes
\* (C10_Delivery, in every state) and the frame of every step (C10_Frame).
C10_Routing == []C10_Delivery /\ [][C10_Frame]_vars

\* A Query has been handled by all its sampled peers in a network where
\* the sample is a proper choice, and a QueryResponse by its addressee.
C10_Witness ==
    /\ Cardinality(nodes) > SAMPLES + 1
    /\ rpc = "recv"
    /\ cur.msg.type = "QueryResponse"
    /\ delivered = <<cur.msg.to>>
    /\ ev.kind = "QueryResponse" /\ ev.pre # ev.post

(***************************************************************************)
(* C11 A Transaction does not touch a known transaction: a Transaction     *)
(* handled by a node that already holds a state for its hash leaves that   *)
(* state's status, epoch, tally, confidence counters, streak count and     *)
(* is_final as they were.                                                  *)
(***************************************************************************)
TransactionStep == ev.kind = "Transaction"

C11_TransactionKeepsKnown ==
    (TransactionStep /\ EvPre # NoState) =>
        /\ EvPost.status = EvPre.status
        /\ EvPost.epoch = EvPre.epoch
        /\ EvPost.responses = EvPre.responses
        /\ EvPost.cnt_valid = EvPre.cnt_valid
        /\ EvPost.cnt_invalid = EvPre.cnt_invalid
        /\ EvPost.cnt = EvPre.cnt
        /\ EvPost.is_final = EvPre.is_final

(***************************************************************************)
(* C12 Unknown-response rejection: a QueryResponse handled by a node that  *)
(* holds no state for its hash panics (the handler does not return), the   *)
(* node's mempool is as it was, nothing is sent and no decision reported;  *)
(* the panicked thread calls no handler again.                             *)
(***************************************************************************)
UnknownResponseStep == ev.kind = "QueryResponse" /\ EvPre = NoState

C12_UnknownResponse ==
    /\ UnknownResponseStep =>
          /\ ev.panic
          /\ panicked
          /\ ev.post = ev.pre
          /\ mempool[ev.node] = ev.pre
          /\ ev.out = <<>>
          /\ mailbox = <<>>
          /\ ev.decision = NoDecision
    /\ panicked => (UnknownResponseStep /\ ~ENABLED NextCall)

\* A node that holds nothing has been handed a response.
C12_Witness ==
    /\ UnknownResponseStep /\ panicked
    /\ \A h \in Nonces : mempool[ev.node][h] = NoState

(***************************************************************************)
(* C13 Per-node mutual exclusion: the main thread and the router thread    *)
(* are never both between lock and unlock of the same node; while a        *)
(* handler runs, the node's mempool is what the handler saw when it was    *)
(* entered; no thread holds two mutexes; and a thread waiting for a node's *)
(* mutex waits for a thread that is running a handler on that node and can *)
(* go on without waiting for anything (no deadlock).                       *)
(***************************************************************************)
MutualExclusion ==
    /\ \A t1, t2 \in Threads :
          (t1 # t2 /\ Holding(t1) /\ Holding(t2)) => call[t1].node # call[t2].node
    /\ \A t \in Threads : Holding(t) => node_lock[call[t].node] = t
    /\ \A i \in nodes :
          node_lock[i] # "free" =>
              (Holding(node_lock[i]) /\ call[node_lock[i]].node = i)

AtomicHandler ==
    \A t \in Threads :
        call[t].pc = "inside" => mempool[call[t].node] = call[t].seen

NoNestedLock ==
    /\ receiver_lock \in {"free", "router"}
    /\ receiver_lock = "router" => call["router"].pc = "out"

NoDeadlock ==
    \A t \in Threads :
        (call[t].pc = "lock" /\ node_lock[call[t].node] # "free") =>
            LET h == node_lock[call[t].node]
            IN /\ h # t
               /\ Holding(h)
               /\ ENABLED (EnterHandler(h) \/ ExitHandler(h) \/ UnlockNode(h))

C13_MutualExclusion ==
    MutualExclusion /\ AtomicHandler /\ NoNestedLock /\ NoDeadlock

\* One thread waits for the mutex of the node the other thread's handler
\* is running on.
C13_Witness ==
    \E t1, t2 \in Threads :
        /\ t1 # t2
        /\ call[t1].pc = "lock" /\ call[t2].pc = "inside"
        /\ call[t1].node = call[t2].node
        /\ node_lock[call[t1].node] = t2

(***************************************************************************)
(* C14 Valid/Invalid symmetry: a state created with status S and fed a     *)
(* sequence of responses, and a state created with the other status and    *)
(* fed the same sequence with every response flipped, have after each step *)
(* opposite statuses and the same epoch, streak count and is_final; so a   *)
(* fresh state fed only its own status is final after the same number of   *)
(* responses for Valid as for Invalid.                                     *)
(***************************************************************************)
C14_Symmetry ==
    \A h \in Nonces :
        mempool[0][h] # NoState =>
            /\ mempool[1][h] # NoState
            /\ mempool[1][h].status = flip(mempool[0][h].status)
            /\ mempool[1][h].epoch = mempool[0][h].epoch
            /\ mempool[1][h].cnt = mempool[0][h].cnt
            /\ mempool[1][h].is_final = mempool[0][h].is_final

(***************************************************************************)
(* C15 The streak counts the node's own status: a QueryResponse step       *)
(* raises cnt only when the response is a quorum confirmation for the      *)
(* status the node holds after the step, and the epoch advances (and a     *)
(* decision is reported) only in such a step.                              *)
(***************************************************************************)
C15_StreakOwnStatus ==
    ResponseStep =>
        /\ EvPost.cnt > EvPre.cnt =>
              (EvQuorum /\ ev.msg.status = EvPost.status)
        /\ EvPost.epoch > EvPre.epoch =>
              (EvQuorum /\ ev.msg.status = EvPost.status)
        /\ ev.decision # NoDecision => ev.msg.status = ev.decision[2]

(***************************************************************************)
(* C16 Reset on colour change: after every QueryResponse step that changes *)
(* the node's status for the transaction, cnt is 0.                        *)
(***************************************************************************)
FlipStep == ResponseStep /\ EvPost.status # EvPre.status

C16_FlipResetsCnt == FlipStep => EvPost.cnt = 0

(***************************************************************************)
(* C17 Agreement under single injection: with one transaction injected     *)
(* once, every node that holds a state for it holds the injected           *)
(* transaction with the status its verification gives, every Query and     *)
(* QueryResponse in the mailbox or in the router's hands carries that      *)
(* status, and every decision reported is that status.                     *)
(***************************************************************************)
Holders(h) == {i \in nodes : mempool[i][h] # NoState}

Carries(m, h, tx, status) ==
    /\ m.msg.type = "Query" =>
          (hash(m.msg.tx) = h => (m.msg.tx = tx /\ m.msg.status = status))
    /\ m.msg.type = "QueryResponse" =>
          (m.msg.hash = h => m.msg.status = status)

C17_Agreement ==
    \A h \in Nonces : \A i \in Holders(h) :
        LET tx == mempool[i][h].tx
            status == verify_transaction(tx)
        IN /\ \A j \in Holders(h) :
                 mempool[j][h].tx = tx /\ mempool[j][h].status = status
           /\ \A k \in 1..Len(mailbox) : Carries(mailbox[k], h, tx, status)
           /\ Carries(cur, h, tx, status)
           /\ \A d \in decisions : d[2] = h => d[3] = status
           /\ \A d1, d2 \in decisions : d1[2] = d2[2] => d1[3] = d2[3]

\* A locally invalid transaction has been decided Invalid by every node
\* while messages for it are still in the mailbox.
C17_Witness ==
    /\ injected = 1
    /\ mailbox # <<>>
    /\ \A i \in nodes, h \in Nonces : <<i, h, Invalid>> \in decisions

(***************************************************************************)
(* C20 Quiescence: after the single injection only finitely many messages  *)
(* are sent: a handler call sends a Query only when it creates the state   *)
(* or handles a response on a state that is not final, one Query at most,  *)
(* and the messages sent never exceed what every node's run to finality    *)
(* allows; and the mailbox eventually is empty and stays empty, the router *)
(* idle, every state final.                                                *)
(***************************************************************************)
\* The responses a state handles before, fed its own status only, it is
\* final: the first quorum, the streak up to conviction, and one quorum
\* more for each further epoch.
ResponsesToFinal ==
    quorum_size + (conviction_bound + 1) + (MAX_EPOCHS - 1) * quorum_size

\* Every node sends at most one Query per response it handles before it is
\* final (the creation's Query included), and every Query is answered by
\* SAMPLES responses.
MessageBound == (SAMPLES + 1) * ResponsesToFinal * (1 + SAMPLES)

Sent == recvd + Len(mailbox)

C20_Bounded ==
    /\ Sent <= MessageBound
    /\ ev.kind # "None" =>
          /\ Len(QueriesOf(ev.out)) <= 1
          /\ Len(QueriesOf(ev.out)) = 1 =>
                \/ EvPre = NoState
                \/ TransactionStep
                \/ (ResponseStep /\ ~EvPre.is_final /\ ~EvPost.is_final)

Quiet ==
    /\ mailbox = <<>>
    /\ rpc = "recv"
    /\ \A i \in LiveNodes, h \in Nonces :
          mempool[i][h] # NoState => mempool[i][h].is_final

C20_Quiescence ==
    /\ []C20_Bounded
    /\ (injected = 1) ~> []Quiet

\* The network has gone quiet on a locally invalid transaction that every
\* node learnt of.
C20_Witness ==
    /\ injected = 1
    /\ Quiet
    /\ recvd > SAMPLES
    /\ \A i \in nodes, h \in Nonces :
          mempool[i][h] # NoState /\ mempool[i][h].status = Invalid

(***************************************************************************)
(* C18 No response for an unknown transaction: every QueryResponse in the  *)
(* mailbox or in the router's hands is addressed to a node that holds a    *)
(* state for its hash, so no handler call panics; and the mailbox holds    *)
(* Queries and QueryResponses only, so the router never takes a            *)
(* Transaction.                                                            *)
(***************************************************************************)
KnownToAddressee(m) ==
    m.msg.type = "QueryResponse" =>
        /\ m.msg.to \in nodes
        /\ mempool[m.msg.to][m.msg.hash] # NoState

C18_NoStrayResponse ==
    /\ \A k \in 1..Len(mailbox) :
          /\ mailbox[k].msg.type \in {"Query", "QueryResponse"}
          /\ KnownToAddressee(mailbox[k])
    /\ KnownToAddressee(cur)
    /\ cur.msg.type # "Transaction"
    /\ rpc # "unreachable"
    /\ ~panicked
    /\ ev.kind # "None" => ~ev.panic

\* After a second injection a node has handled a response and more
\* responses are waiting.
C18_Witness ==
    /\ injected > 1
    /\ ResponseStep /\ ~ev.panic
    /\ \E k \in 1..Len(mailbox) : mailbox[k].msg.type = "QueryResponse"

(***************************************************************************)
(* C19 Confidence dominance: in every consensus state the confidence       *)
(* counter of the status held is at least the counter of the other status; *)
(* and a QueryResponse step that is a quorum confirmation for S on a state *)
(* that is not final raises the counter of S by exactly 1 and leaves the   *)
(* other counter as it was, while any other response step leaves both.     *)
(***************************************************************************)
Dominates(st) == status_count(st, st.status) >= status_count(st, flip(st.status))

C19_Dominance ==
    /\ \A st \in States : Dominates(st)
    /\ ResponseStep =>
          LET s == ev.msg.status
          IN IF ~EvPre.is_final /\ EvQuorum
             THEN /\ status_count(EvPost, s) = status_count(EvPre, s) + 1
                  /\ status_count(EvPost, flip(s)) = status_count(EvPre, flip(s))
             ELSE /\ EvPost.cnt_valid = EvPre.cnt_valid
                  /\ EvPost.cnt_invalid = EvPre.cnt_invalid

\* A quorum for the other status has been counted without changing the
\* node's status: the counters are level.
C19_Witness ==
    /\ ResponseStep /\ EvQuorum /\ ~EvPre.is_final
    /\ ev.msg.status # EvPost.status
    /\ EvPost.cnt_valid = EvPost.cnt_invalid
    /\ EvPost.cnt_valid > 0

=============================================================================
